---- MODULE Spec2Model ----
(***************************************************************************)
(* A model of @libar/core: the Result type and its combinators, the        *)
(* schema-validation adapter, and the id / fingerprint generators.         *)
(*                                                                         *)
(* The package is a set of pure functions.  Each operation is one action   *)
(* that draws its arguments from bounded sets, applies the function as     *)
(* the source computes it and records the arguments and the outcome.       *)
(* Strings are sequences of one-character strings, so that concatenation,  *)
(* prefix tests and substring are computed and not assumed.                *)
(***************************************************************************)
EXTENDS Integers, Sequences, FiniteSets, TLC

VARIABLES
    pc,     \* the operation that ran last ("start" before any)
    args,   \* the arguments of that operation, by their source names
    out,    \* its outcome
    now,    \* Date.now(): the clock read by generateId
    ids     \* the strings generateId returned so far, with what each call read

vars == <<pc, args, out, now, ids>>

\* Nothing has run: the package keeps no state of its own.
Init ==
    /\ pc = "start"
    /\ args = [op |-> "none"]
    /\ out = [op |-> "none"]
    /\ now = 0
    /\ ids = <<>>

\* ------------------------------------------------------------------ bounds

MaxVal == 1
StrMaxLen == 5
MaxCalls == 2
MaxTicks == 1
MaxNum == 3

\* Success values (T and U) and error values (E).
Values == 0..MaxVal
Errors == {"E1", "E2"}

\* ------------------------------------------------- outcomes of a call

\* A call either returns a value or throws one; spy lists, in order, the
\* arguments the callback was invoked with during the call.
Return(v, calls) == [kind |-> "return", value |-> v, spy |-> calls]
Throw(e, calls) == [kind |-> "throw", value |-> e, spy |-> calls]

\* ------------------------------------------ src/types/result.ts: Result

ok(value) == [ok |-> TRUE, value |-> value]
err(error) == [ok |-> FALSE, error |-> error]

Results == {ok(v) : v \in Values} \cup {err(e) : e \in Errors}

isOk(result) == result.ok
isErr(result) == ~result.ok

\* Variant of unwrap: the error is returned, not thrown.
unwrapNoThrow(result) ==
    IF ~result.ok THEN Return(result.error, <<>>) ELSE Return(result.value, <<>>)

unwrap(result) ==
    IF ~result.ok THEN Throw(result.error, <<>>) ELSE Return(result.value, <<>>)

\* Variant of unwrapOr: `result.value || defaultValue`.
unwrapOrFalsy(result, defaultValue) ==
    Return(IF result.ok /\ result.value # 0 THEN result.value ELSE defaultValue, <<>>)

unwrapOr(result, defaultValue) ==
    Return(IF result.ok THEN result.value ELSE defaultValue, <<>>)

\* Variant of map: the value is wrapped again without calling fn.
mapNoApply(result, fn) ==
    IF result.ok THEN Return(ok(result.value), <<>>) ELSE Return(result, <<>>)

map(result, fn) ==
    IF result.ok
    THEN Return(ok(fn[result.value]), <<result.value>>)
    ELSE Return(result, <<>>)

mapErr(result, fn) ==
    IF result.ok
    THEN Return(result, <<>>)
    ELSE Return(err(fn[result.error]), <<result.error>>)

\* Variant of chain: a failure of fn is dropped and the input returned.
chainKeepInput(result, fn) ==
    IF result.ok
    THEN Return(IF fn[result.value].ok THEN fn[result.value] ELSE result,
                <<result.value>>)
    ELSE Return(result, <<>>)

\* Variant of chain: a failure of fn is replaced by a fixed error.
chainFlatten(result, fn) ==
    IF result.ok
    THEN Return(IF fn[result.value].ok THEN fn[result.value] ELSE err("E1"),
                <<result.value>>)
    ELSE Return(result, <<>>)

chain(result, fn) ==
    IF result.ok
    THEN Return(fn[result.value], <<result.value>>)
    ELSE Return(result, <<>>)

\* ------------------------------------------------- src/types.ts: Result.*

Result_ok(value) == [ok |-> TRUE, value |-> value]
Result_err(error) == [ok |-> FALSE, error |-> error]

Result_map(result, fn) ==
    IF result.ok
    THEN Return([ok |-> TRUE, value |-> fn[result.value]], <<result.value>>)
    ELSE Return([ok |-> FALSE, error |-> result.error], <<>>)

Result_mapErr(result, fn) ==
    IF result.ok
    THEN Return([ok |-> TRUE, value |-> result.value], <<>>)
    ELSE Return([ok |-> FALSE, error |-> fn[result.error]], <<result.error>>)

Result_unwrap(result) ==
    IF result.ok THEN Return(result.value, <<>>) ELSE Throw(result.error, <<>>)

Result_unwrapOr(result, defaultValue) ==
    Return(IF result.ok THEN result.value ELSE defaultValue, <<>>)

\* ------------------------------------------------------ Result: actions

\* Total callbacks: value -> value, error -> error, value -> Result.
ValueFns == [Values -> Values]
ErrorFns == [Errors -> Errors]
ResultFns == [Values -> Results]
Defaults == 0..(MaxVal + 1)

Map ==
    /\ pc = "start"
    /\ \E r \in Results, f \in ValueFns :
        /\ args' = [result |-> r, fn |-> f]
        /\ out' = [map |-> map(r, f), Result_map |-> Result_map(r, f)]
    /\ pc' = "map"
    /\ UNCHANGED <<now, ids>>

MapErr ==
    /\ pc = "start"
    /\ \E r \in Results, f \in ErrorFns :
        /\ args' = [result |-> r, fn |-> f]
        /\ out' = [mapErr |-> mapErr(r, f), Result_mapErr |-> Result_mapErr(r, f)]
    /\ pc' = "mapErr"
    /\ UNCHANGED <<now, ids>>

Chain ==
    /\ pc = "start"
    /\ \E r \in Results, f \in ResultFns :
        /\ args' = [result |-> r, fn |-> f]
        /\ out' = chain(r, f)
    /\ pc' = "chain"
    /\ UNCHANGED <<now, ids>>

\* Both sides of the associativity law, each computed with chain.
ChainTwice ==
    /\ pc = "start"
    /\ \E r \in Results, f \in ResultFns, g \in ResultFns :
        /\ args' = [result |-> r, f |-> f, g |-> g]
        /\ out' = [lhs |-> chain(chain(r, f).value, g).value,
                   rhs |-> chain(r, [x \in Values |-> chain(f[x], g).value]).value]
    /\ pc' = "chainTwice"
    /\ UNCHANGED <<now, ids>>

Unwrap ==
    /\ pc = "start"
    /\ \E r \in Results :
        /\ args' = [result |-> r]
        /\ out' = [unwrap |-> unwrap(r), Result_unwrap |-> Result_unwrap(r)]
    /\ pc' = "unwrap"
    /\ UNCHANGED <<now, ids>>

UnwrapOr ==
    /\ pc = "start"
    /\ \E r \in Results, d \in Defaults :
        /\ args' = [result |-> r, defaultValue |-> d]
        /\ out' = [unwrapOr |-> unwrapOr(r, d),
                   Result_unwrapOr |-> Result_unwrapOr(r, d)]
    /\ pc' = "unwrapOr"
    /\ UNCHANGED <<now, ids>>

NextResult == Map \/ MapErr \/ Chain \/ ChainTwice \/ Unwrap \/ UnwrapOr

SpecResult == Init /\ [][NextResult]_vars

\* ------------------------------------------------------------ JS values

\* An `unknown` value: a string (its characters), a number, undefined, or a
\* plain object (its own properties in insertion order).
Str(s) == [t |-> "string", s |-> s]
Num(n) == [t |-> "number", n |-> n]
Undefined == [t |-> "undefined"]
Obj(props) == [t |-> "object", props |-> props]

HasKey(obj, key) == \E i \in 1..Len(obj.props) : obj.props[i].k = key

\* obj[key]: undefined when obj has no such property.
Get(obj, key) ==
    IF HasKey(obj, key)
    THEN obj.props[CHOOSE i \in 1..Len(obj.props) : obj.props[i].k = key].v
    ELSE Undefined

\* typeof, as text.
TypeName(value) ==
    CASE value.t = "string" -> <<"s", "t", "r", "i", "n", "g">>
      [] value.t = "number" -> <<"n", "u", "m", "b", "e", "r">>
      [] value.t = "object" -> <<"o", "b", "j", "e", "c", "t">>
      [] OTHER -> <<"u", "n", "d", "e", "f", "i", "n", "e", "d">>

\* Array.prototype.join over strings.
RECURSIVE Join(_, _)
Join(parts, sep) ==
    IF Len(parts) = 0 THEN <<>>
    ELSE IF Len(parts) = 1 THEN parts[1]
    ELSE parts[1] \o sep \o Join(Tail(parts), sep)

\* String.prototype.startsWith.
StartsWith(val, prefix) ==
    /\ Len(val) >= Len(prefix)
    /\ SubSeq(val, 1, Len(prefix)) = prefix

Digits36 ==
    <<"0", "1", "2", "3", "4", "5", "6", "7", "8", "9", "a", "b", "c", "d", "e",
      "f", "g", "h", "i", "j", "k", "l", "m", "n", "o", "p", "q", "r", "s", "t",
      "u", "v", "w", "x", "y", "z">>

\* Number.prototype.toString() of a non-negative integer.
RECURSIVE ToString10(_)
ToString10(n) ==
    IF n < 10 THEN <<Digits36[n + 1]>>
    ELSE ToString10(n \div 10) \o <<Digits36[(n % 10) + 1]>>

\* ------------------------------------- the schema-validation engine (zod)

z_string == [type |-> "ZodString", min |-> 0]
z_min(schema, n) == [schema EXCEPT !.min = n]
z_number == [type |-> "ZodNumber"]
z_optional(schema) == [type |-> "ZodOptional", inner |-> schema]
z_object(shape) == [type |-> "ZodObject", shape |-> shape]
\* .refine(val => val.startsWith(prefix), message)
z_refineStartsWith(schema, prefix, message) ==
    [type |-> "ZodEffects", inner |-> schema, prefix |-> prefix, message |-> message]
\* .default(value)
z_default(schema, value) == [type |-> "ZodDefault", inner |-> schema, value |-> value]
\* z.nativeEnum(E): the values of E, in declaration order.
z_nativeEnum(values) == [type |-> "ZodNativeEnum", values |-> values]
\* z.record(z.string(), valueSchema)
z_record(valueSchema) == [type |-> "ZodRecord", value |-> valueSchema]
Field(key, schema) == [k |-> key, schema |-> schema]

Issue(path, message) == [path |-> path, message |-> message]

InvalidType(expected, value, path) ==
    Issue(path,
          IF value.t = "undefined" THEN <<"R", "e", "q", "u", "i", "r", "e", "d">>
          ELSE <<"E", "x", "p", "e", "c", "t", "e", "d", " ">> \o expected \o <<",", " ", "r", "e", "c", "e", "i", "v", "e", "d", " ">> \o TypeName(value))

\* util.joinValues: 'A' | 'B' | ...
RECURSIVE JoinValues(_)
JoinValues(values) ==
    IF Len(values) = 0 THEN <<>>
    ELSE <<"'">> \o values[1] \o <<"'">>
           \o (IF Len(values) = 1 THEN <<>> ELSE <<" ", "|", " ">> \o JoinValues(Tail(values)))

Parsed(status, value, issues) == [status |-> status, value |-> value, issues |-> issues]

Worst(a, b) ==
    IF a = "aborted" \/ b = "aborted" THEN "aborted"
    ELSE IF a = "dirty" \/ b = "dirty" THEN "dirty"
    ELSE "valid"

\* schema._parse(data) at `path`: the status, the parsed value and the issues.
RECURSIVE z_parse(_, _, _)
RECURSIVE z_parseShape(_, _, _, _)
RECURSIVE z_parseRecord(_, _, _, _)

\* The members of an object schema, in shape order; unknown keys are stripped.
z_parseShape(shape, data, path, i) ==
    IF i > Len(shape) THEN Parsed("valid", <<>>, <<>>)
    ELSE
        LET key == shape[i].k
            member == z_parse(shape[i].schema, Get(data, key), Append(path, key))
            rest == z_parseShape(shape, data, path, i + 1)
            keep == member.value.t # "undefined" \/ HasKey(data, key)
        IN  Parsed(Worst(member.status, rest.status),
                   (IF keep THEN <<[k |-> key, v |-> member.value]>> ELSE <<>>)
                       \o rest.value,
                   member.issues \o rest.issues)

\* The entries of a record, in insertion order.
z_parseRecord(valueSchema, data, path, i) ==
    IF i > Len(data.props) THEN Parsed("valid", <<>>, <<>>)
    ELSE
        LET key == data.props[i].k
            member == z_parse(valueSchema, data.props[i].v, Append(path, key))
            rest == z_parseRecord(valueSchema, data, path, i + 1)
        IN  Parsed(Worst(member.status, rest.status),
                   <<[k |-> key, v |-> member.value]>> \o rest.value,
                   member.issues \o rest.issues)

z_parse(schema, data, path) ==
    CASE schema.type = "ZodString" ->
            IF data.t # "string"
            THEN Parsed("aborted", data, <<InvalidType(<<"s", "t", "r", "i", "n", "g">>, data, path)>>)
            ELSE IF Len(data.s) < schema.min
            THEN Parsed("dirty", data,
                        <<Issue(path, <<"S", "t", "r", "i", "n", "g", " ", "m", "u", "s", "t", " ", "c", "o", "n", "t", "a", "i", "n", " ", "a", "t", " ", "l", "e", "a", "s", "t", " ", "1", " ", "c", "h", "a", "r", "a", "c", "t", "e", "r", "(", "s", ")">>)>>)
            ELSE Parsed("valid", data, <<>>)
      [] schema.type = "ZodNumber" ->
            IF data.t # "number"
            THEN Parsed("aborted", data, <<InvalidType(<<"n", "u", "m", "b", "e", "r">>, data, path)>>)
            ELSE Parsed("valid", data, <<>>)
      [] schema.type = "ZodOptional" ->
            IF data.t = "undefined"
            THEN Parsed("valid", data, <<>>)
            ELSE z_parse(schema.inner, data, path)
      [] schema.type = "ZodEffects" ->
            LET inner == z_parse(schema.inner, data, path)
            IN  IF inner.status = "aborted" THEN inner
                ELSE IF StartsWith(inner.value.s, schema.prefix) THEN inner
                ELSE Parsed("dirty", inner.value,
                            inner.issues \o <<Issue(path, schema.message)>>)
      [] schema.type = "ZodDefault" ->
            z_parse(schema.inner,
                    IF data.t = "undefined" THEN schema.value ELSE data, path)
      [] schema.type = "ZodNativeEnum" ->
            IF data.t \notin {"string", "number"}
            THEN Parsed("aborted", data, <<InvalidType(JoinValues(schema.values), data, path)>>)
            ELSE IF data.t = "string" /\ \E i \in 1..Len(schema.values) : schema.values[i] = data.s
            THEN Parsed("valid", data, <<>>)
            ELSE Parsed("aborted", data,
                        <<Issue(path, <<"I", "n", "v", "a", "l", "i", "d", " ", "e", "n", "u", "m", " ", "v", "a", "l", "u", "e", ".", " ", "E", "x", "p", "e", "c", "t", "e", "d", " ">> \o JoinValues(schema.values)
                                        \o <<",", " ", "r", "e", "c", "e", "i", "v", "e", "d", " ">>
                                        \o <<"'">>
                                        \o (IF data.t = "string" THEN data.s
                                            ELSE ToString10(data.n))
                                        \o <<"'">>)>>)
      [] schema.type = "ZodRecord" ->
            IF data.t # "object"
            THEN Parsed("aborted", data, <<InvalidType(<<"o", "b", "j", "e", "c", "t">>, data, path)>>)
            ELSE LET entries == z_parseRecord(schema.value, data, path, 1)
                 IN  Parsed(entries.status, Obj(entries.value), entries.issues)
      [] OTHER ->
            IF data.t # "object"
            THEN Parsed("aborted", data, <<InvalidType(<<"o", "b", "j", "e", "c", "t">>, data, path)>>)
            ELSE LET members == z_parseShape(schema.shape, data, path, 1)
                 IN  Parsed(members.status, Obj(members.value), members.issues)

\* schema.safeParse(data): the parsed value, or a ZodError listing the issues.
safeParse(schema, data) ==
    LET parsed == z_parse(schema, data, <<>>)
    IN  IF parsed.status = "valid"
        THEN [success |-> TRUE, data |-> parsed.value]
        ELSE [success |-> FALSE, error |-> [errors |-> parsed.issues]]

\* ------------------------------------------------- src/validation.ts

K_requestId == <<"r", "e", "q", "u", "e", "s", "t", "I", "d">>
K_sessionId == <<"s", "e", "s", "s", "i", "o", "n", "I", "d">>
K_correlationId == <<"c", "o", "r", "r", "e", "l", "a", "t", "i", "o", "n", "I", "d">>
K_timestamp == <<"t", "i", "m", "e", "s", "t", "a", "m", "p">>
K_userId == <<"u", "s", "e", "r", "I", "d">>
K_created == <<"c", "r", "e", "a", "t", "e", "d">>
K_resourceId == <<"r", "e", "s", "o", "u", "r", "c", "e", "I", "d">>
K_tag == <<"t", "a", "g">>

\* Variant of ResourceIdSchema: the refinement is missing.
ResourceIdSchemaAnyString == z_min(z_string, 1)

ResourceIdSchema ==
    z_refineStartsWith(z_min(z_string, 1), <<"r", "e", "s", "_">>,
                       <<"R", "e", "s", "o", "u", "r", "c", "e", "I", "d", " ", "m", "u", "s", "t", " ", "s", "t", "a", "r", "t", " ", "w", "i", "t", "h", " ", "\"", "r", "e", "s", "_", "\"">>)

EphemeralIdSchema ==
    z_refineStartsWith(z_min(z_string, 1), <<"e", "p", "h", "_">>,
                       <<"E", "p", "h", "e", "m", "e", "r", "a", "l", "I", "d", " ", "m", "u", "s", "t", " ", "s", "t", "a", "r", "t", " ", "w", "i", "t", "h", " ", "\"", "e", "p", "h", "_", "\"">>)

\* src/types/database.ts
ExecutionContextSchema ==
    z_object(<<Field(K_requestId, z_string),
               Field(K_sessionId, z_optional(z_string)),
               Field(K_correlationId, z_optional(z_string)),
               Field(K_timestamp, z_number),
               Field(K_userId, z_optional(z_string))>>)

\* The `created` member of ResourceEventsSchema (src/types.ts), in an object
\* of its own: a schema with a nested object.
CreatedEventSchema ==
    z_object(<<Field(K_created,
                     z_object(<<Field(K_resourceId, z_string),
                                Field(K_timestamp, z_number)>>))>>)

K_createdAt == <<"c", "r", "e", "a", "t", "e", "d", "A", "t">>
K_updatedAt == <<"u", "p", "d", "a", "t", "e", "d", "A", "t">>
K_createdBy == <<"c", "r", "e", "a", "t", "e", "d", "B", "y">>
K_updatedBy == <<"u", "p", "d", "a", "t", "e", "d", "B", "y">>
K_version == <<"v", "e", "r", "s", "i", "o", "n">>
K_tags == <<"t", "a", "g", "s">>
K_labels == <<"l", "a", "b", "e", "l", "s">>
K_id == <<"i", "d">>
K_lifecycle == <<"l", "i", "f", "e", "c", "y", "c", "l", "e">>
K_fingerprint == <<"f", "i", "n", "g", "e", "r", "p", "r", "i", "n", "t">>
K_expiresAt == <<"e", "x", "p", "i", "r", "e", "s", "A", "t">>

\* src/types.ts: enum ResourceLifecycle
ResourceLifecycle ==
    <<<<"E", "P", "H", "E", "M", "E", "R", "A", "L">>, <<"P", "E", "R", "S", "I", "S", "T", "E", "D">>, <<"P", "R", "O", "C", "E", "S", "S", "I", "N", "G">>, <<"C", "O", "M", "P", "L", "E", "T", "E", "D">>,
      <<"F", "A", "I", "L", "E", "D">>, <<"E", "X", "P", "I", "R", "E", "D">>, <<"D", "E", "L", "E", "T", "E", "D">>>>

\* src/types.ts
ResourceMetadataSchema ==
    z_object(<<Field(K_createdAt, z_number),
               Field(K_updatedAt, z_number),
               Field(K_createdBy, z_optional(z_string)),
               Field(K_updatedBy, z_optional(z_string)),
               Field(K_version, z_number),
               Field(K_tags, z_optional(z_record(z_string))),
               Field(K_labels, z_optional(z_record(z_string))),
               Field(K_id, z_optional(z_string)),
               Field(K_lifecycle, z_optional(z_nativeEnum(ResourceLifecycle))),
               Field(K_fingerprint, z_optional(z_string)),
               Field(K_expiresAt, z_optional(z_number))>>)

\* src/types/database.ts: enum ResourceLifecycle
DatabaseResourceLifecycle ==
    <<<<"E", "P", "H", "E", "M", "E", "R", "A", "L">>, <<"P", "E", "R", "S", "I", "S", "T", "E", "D">>, <<"E", "X", "P", "I", "R", "E", "D">>, <<"D", "E", "L", "E", "T", "E", "D">>>>

\* src/types/database.ts
ExtendedResourceMetadataSchema ==
    z_object(<<Field(K_id, z_string),
               Field(K_createdAt, z_number),
               Field(K_updatedAt, z_number),
               Field(K_version, z_default(z_number, Num(1))),
               Field(K_expiresAt, z_optional(z_number)),
               Field(K_lifecycle, z_nativeEnum(DatabaseResourceLifecycle)),
               Field(K_fingerprint, z_optional(z_string)),
               Field(K_createdBy, z_optional(z_string)),
               Field(K_updatedBy, z_optional(z_string)),
               Field(K_tags, z_optional(z_record(z_string))),
               Field(K_labels, z_optional(z_record(z_string)))>>)

isValidResourceMetadata(data) ==
    Return(safeParse(ResourceMetadataSchema, data).success, <<>>)

\* Variant of validateWithSchema: the input is returned, not the parsed value.
validateWithSchemaSwap(schema, data) ==
    LET result == safeParse(schema, data)
    IN  IF result.success
        THEN Return([ok |-> TRUE, value |-> data], <<>>)
        ELSE Return([ok |-> FALSE, error |-> result.error], <<>>)

validateWithSchema(schema, data) ==
    LET result == safeParse(schema, data)
    IN  IF result.success
        THEN Return([ok |-> TRUE, value |-> result.data], <<>>)
        ELSE Return([ok |-> FALSE, error |-> result.error], <<>>)

\* `${e.path.join('.')}: ${e.message}` of each issue.
RECURSIVE IssueLines(_)
IssueLines(errors) ==
    IF Len(errors) = 0 THEN <<>>
    ELSE <<Join(errors[1].path, <<".">>) \o <<":", " ">> \o errors[1].message>>
             \o IssueLines(Tail(errors))

VALIDATION_FAILED == <<"V", "a", "l", "i", "d", "a", "t", "i", "o", "n", " ", "f", "a", "i", "l", "e", "d", ":", " ">>

ErrorOf(message) == [name |-> "Error", message |-> message]

\* Variant of parseWithSchema: only the first error is reported.
parseWithSchemaFirstOnly(schema, data) ==
    LET result == safeParse(schema, data)
    IN  IF ~result.success
        THEN Throw(ErrorOf(VALIDATION_FAILED
                             \o IssueLines(result.error.errors)[1]), <<>>)
        ELSE Return(result.data, <<>>)

parseWithSchema(schema, data) ==
    LET result == safeParse(schema, data)
    IN  IF ~result.success
        THEN Throw(ErrorOf(VALIDATION_FAILED
                             \o Join(IssueLines(result.error.errors), <<",", " ">>)), <<>>)
        ELSE Return(result.data, <<>>)

\* ------------------------------------------------- validation: inputs

Alphabet == {"r", "e", "s", "_", "p", "h"}
Strings == UNION {[1..n -> Alphabet] : n \in 0..StrMaxLen}

\* No property, or the property `key` with one of `values`.
Opt(key, values) == {<<>>} \cup {<<[k |-> key, v |-> v]>> : v \in values}

SomeScalars == {Str(<<"r", "e", "s", "_", "p">>), Num(1)}

ContextData ==
    {Obj(a \o b \o c \o d) :
        a \in Opt(K_requestId, SomeScalars), b \in Opt(K_timestamp, SomeScalars),
        c \in Opt(K_userId, SomeScalars), d \in Opt(K_tag, {Num(1)})}

CreatedData ==
    {Obj(c) :
        c \in Opt(K_created,
                  {Num(1)} \cup
                  {Obj(a \o b) : a \in Opt(K_resourceId, SomeScalars),
                                 b \in Opt(K_timestamp, SomeScalars)})}

ScalarData ==
    {Undefined, Num(1), Str(<<>>), Str(<<"r", "e", "s", "_">>), Str(<<"e", "p", "h", "_", "p">>), Str(<<"s">>)}

Data == ScalarData \cup ContextData \cup CreatedData

Schemas == {ResourceIdSchema, EphemeralIdSchema, ExecutionContextSchema,
            CreatedEventSchema}

\* Metadata records: timestamps in either order, versions around 1, and the
\* members whose schemas differ between the two metadata schemas.
MetadataData ==
    {Obj(a \o b \o c \o d \o e \o f) :
        a \in Opt(K_createdAt, {Num(1), Num(2), Str(<<"s">>)}),
        b \in Opt(K_updatedAt, {Num(1), Num(2)}),
        c \in Opt(K_version, {Num(0), Num(1), Num(2)}),
        d \in Opt(K_id, {Str(<<"r", "e", "s", "_", "p">>)}),
        e \in Opt(K_lifecycle, {Str(<<"E", "P", "H", "E", "M", "E", "R", "A", "L">>), Str(<<"C", "O", "M", "P", "L", "E", "T", "E", "D">>), Str(<<"s">>), Num(1)}),
        f \in Opt(K_tags, {Obj(<<[k |-> K_tag, v |-> Str(<<"s">>)]>>),
                           Obj(<<[k |-> K_tag, v |-> Num(1)]>>)})}

\* ------------------------------------------------- validation: actions

ValidateWithSchema ==
    /\ pc = "start"
    /\ \E schema \in Schemas, data \in Data :
        /\ args' = [schema |-> schema, data |-> data]
        /\ out' = validateWithSchema(schema, data)
    /\ pc' = "validateWithSchema"
    /\ UNCHANGED <<now, ids>>

ParseWithSchema ==
    /\ pc = "start"
    /\ \E schema \in Schemas, data \in Data :
        /\ args' = [schema |-> schema, data |-> data]
        /\ out' = parseWithSchema(schema, data)
    /\ pc' = "parseWithSchema"
    /\ UNCHANGED <<now, ids>>

\* A string checked against both identifier schemas.
ValidateIdString ==
    /\ pc = "start"
    /\ \E s \in Strings :
        /\ args' = [data |-> Str(s)]
        /\ out' = [resource |-> validateWithSchema(ResourceIdSchema, Str(s)),
                   ephemeral |-> validateWithSchema(EphemeralIdSchema, Str(s))]
    /\ pc' = "validateIdString"
    /\ UNCHANGED <<now, ids>>

IsValidResourceMetadata ==
    /\ pc = "start"
    /\ \E data \in MetadataData \cup ScalarData :
        /\ args' = [data |-> data]
        /\ out' = isValidResourceMetadata(data)
    /\ pc' = "isValidResourceMetadata"
    /\ UNCHANGED <<now, ids>>

\* ExtendedResourceMetadataSchema.safeParse(data), through validateWithSchema.
ValidateExtendedResourceMetadata ==
    /\ pc = "start"
    /\ \E data \in MetadataData \cup ScalarData :
        /\ args' = [schema |-> ExtendedResourceMetadataSchema, data |-> data]
        /\ out' = validateWithSchema(ExtendedResourceMetadataSchema, data)
    /\ pc' = "validateExtendedResourceMetadata"
    /\ UNCHANGED <<now, ids>>

NextValidation ==
    \/ ValidateWithSchema
    \/ ParseWithSchema
    \/ ValidateIdString
    \/ IsValidResourceMetadata
    \/ ValidateExtendedResourceMetadata

SpecValidation == Init /\ [][NextValidation]_vars

\* --------------------------------------- src/utils/id-generators.ts: ids

\* Number.prototype.toString(36) of a non-negative integer.
RECURSIVE ToString36(_)
ToString36(n) ==
    IF n < 36 THEN <<Digits36[n + 1]>>
    ELSE ToString36(n \div 36) \o <<Digits36[(n % 36) + 1]>>

\* String.prototype.substring(start, end), both within 0..: the characters
\* at the 0-based positions start .. end-1 that exist.
Substring(str, start, end) ==
    LET lo == IF start > Len(str) THEN Len(str) ELSE start
        hi == IF end > Len(str) THEN Len(str) ELSE end
    IN  SubSeq(str, lo + 1, hi)

\* Math.random().toString(36) of the number in [0, 1) whose base-36 digits
\* after the point are `digits` (none: the number 0).
RandomToString36(digits) ==
    IF Len(digits) = 0 THEN <<"0">> ELSE <<"0", ".">> \o digits

\* Variant of generateId: the random part is left out.
generateIdNoRandom(prefix, dateNow, mathRandom) ==
    LET timestamp == ToString36(dateNow)
    IN  IF Len(prefix) > 0
        THEN prefix \o <<"_">> \o timestamp \o <<"_">>
        ELSE timestamp \o <<"_">>

\* generateId(prefix) when Date.now() is dateNow and Math.random() is the
\* number with the base-36 digits mathRandom.
generateId(prefix, dateNow, mathRandom) ==
    LET timestamp == ToString36(dateNow)
        random == Substring(RandomToString36(mathRandom), 2, 9)
    IN  IF Len(prefix) > 0
        THEN prefix \o <<"_">> \o timestamp \o <<"_">> \o random
        ELSE timestamp \o <<"_">> \o random

generateWorkflowId(dateNow, mathRandom) == generateId(<<"w", "f">>, dateNow, mathRandom)

\* ------------------------------------------------------- ids: the inputs

\* Prefixes: none (the default ''), and two of the category prefixes.
Prefixes == {<<>>, <<"w", "f">>, <<"r", "e", "s">>}

\* Values of Math.random(), by their base-36 digits: 0, 0.5, and numbers
\* with seven and with eight digits, three of which agree on the first seven.
RandomDigits ==
    {<<>>, <<"i">>, <<"k", "3", "x", "9", "q", "2", "m">>, <<"k", "3", "x", "9", "q", "2", "m", "a">>, <<"k", "3", "x", "9", "q", "2", "m", "z">>, <<"z", "3", "x", "9", "q", "2", "m", "1">>}

\* Clock readings the run may start at: "0", "z" (then "10") in base 36.
ClockStarts == {0, 35}

\* ------------------------------------------------------ ids: the actions

InitId ==
    /\ pc = "start"
    /\ args = [op |-> "none"]
    /\ out = [op |-> "none"]
    /\ now \in ClockStarts
    /\ ids = <<>>

\* One call of generateId: it reads the clock and the random source.
GenerateId ==
    /\ Len(ids) < MaxCalls
    /\ \E prefix \in Prefixes, r \in RandomDigits :
        /\ args' = [prefix |-> prefix]
        /\ out' = Return(generateId(prefix, now, r), <<>>)
        /\ ids' = Append(ids, [prefix |-> prefix, dateNow |-> now, mathRandom |-> r,
                               id |-> generateId(prefix, now, r)])
    /\ pc' = "generateId"
    /\ UNCHANGED now

\* A millisecond passes between two calls.
Tick ==
    /\ \E start \in ClockStarts : start <= now /\ now < start + MaxTicks
    /\ now' = now + 1
    /\ UNCHANGED <<pc, args, out, ids>>

NextId == GenerateId \/ Tick

SpecId == InitId /\ [][NextId]_vars

\* ------------------------------ src/utils/id-generators.ts: fingerprints

Null == [t |-> "null"]
Arr(items) == [t |-> "array", items |-> items]

\* String.prototype.charCodeAt, for the characters the serializations use.
CharCode(c) ==
    CASE c = "\"" -> 34 [] c = "," -> 44 [] c = ":" -> 58 [] c = "[" -> 91
      [] c = "\\" -> 92 [] c = "]" -> 93 [] c = "{" -> 123 [] c = "}" -> 125
      [] c = "0" -> 48 [] c = "1" -> 49 [] c = "2" -> 50 [] c = "3" -> 51
      [] c = "4" -> 52 [] c = "5" -> 53 [] c = "6" -> 54 [] c = "7" -> 55
      [] c = "8" -> 56 [] c = "9" -> 57 [] c = "a" -> 97 [] c = "b" -> 98
      [] c = "l" -> 108 [] c = "n" -> 110 [] c = "u" -> 117 [] c = "x" -> 120

\* The order of Array.prototype.sort() on strings: by UTF-16 code units.
RECURSIVE StringLess(_, _)
StringLess(a, b) ==
    IF Len(b) = 0 THEN FALSE
    ELSE IF Len(a) = 0 THEN TRUE
    ELSE IF CharCode(a[1]) # CharCode(b[1]) THEN CharCode(a[1]) < CharCode(b[1])
    ELSE StringLess(Tail(a), Tail(b))

\* Array.prototype.sort() of an array of distinct strings.
RECURSIVE Sort(_)
Sort(keys) ==
    IF Len(keys) = 0 THEN <<>>
    ELSE LET i == CHOOSE i \in 1..Len(keys) :
                      \A j \in 1..Len(keys) : j = i \/ StringLess(keys[i], keys[j])
         IN  <<keys[i]>> \o Sort(SubSeq(keys, 1, i - 1) \o SubSeq(keys, i + 1, Len(keys)))

\* Object.keys: the own keys of an object in insertion order, the indices
\* of an array.
ObjectKeys(value) ==
    IF value.t = "array"
    THEN [i \in 1..Len(value.items) |-> ToString10(i - 1)]
    ELSE [i \in 1..Len(value.props) |-> value.props[i].k]

\* JSON's QuoteJSONString: the quotes, with quote and backslash escaped.
RECURSIVE Escaped(_)
Escaped(s) ==
    IF Len(s) = 0 THEN <<>>
    ELSE (IF s[1] \in {"\"", "\\"} THEN <<"\\", s[1]>> ELSE <<s[1]>>) \o Escaped(Tail(s))

Quote(s) == <<"\"">> \o Escaped(s) \o <<"\"">>

\* A serialization: a string, or undefined (nothing to write).
NoString == [defined |-> FALSE]
Some(s) == [defined |-> TRUE, s |-> s]

\* JSON.stringify's SerializeJSONProperty.  `list` is the property list of
\* an array replacer (used for every object, at every depth), or NoString
\* when there is no replacer and an object writes its own keys.
RECURSIVE Serialize(_, _)
RECURSIVE SerializeMembers(_, _, _)
RECURSIVE SerializeItems(_, _)

\* The members "key":value of `value` for the keys K, those with nothing to
\* write left out.
SerializeMembers(value, K, list) ==
    IF Len(K) = 0 THEN <<>>
    ELSE LET strP == Serialize(Get(value, K[1]), list)
             rest == SerializeMembers(value, Tail(K), list)
         IN  IF strP.defined
             THEN <<Quote(K[1]) \o <<":">> \o strP.s>> \o rest
             ELSE rest

\* The elements of an array; one with nothing to write is written null.
SerializeItems(items, list) ==
    IF Len(items) = 0 THEN <<>>
    ELSE LET strP == Serialize(items[1], list)
         IN  <<IF strP.defined THEN strP.s ELSE <<"n", "u", "l", "l">>>>
                 \o SerializeItems(Tail(items), list)

Serialize(value, list) ==
    CASE value.t = "null" -> Some(<<"n", "u", "l", "l">>)
      [] value.t = "number" -> Some(ToString10(value.n))
      [] value.t = "string" -> Some(Quote(value.s))
      [] value.t = "array" ->
            Some(<<"[">> \o Join(SerializeItems(value.items, list), <<",">>) \o <<"]">>)
      [] value.t = "object" ->
            Some(<<"{">>
                   \o Join(SerializeMembers(value,
                                            IF list.defined THEN list.s
                                            ELSE ObjectKeys(value),
                                            list),
                           <<",">>)
                   \o <<"}">>)
      [] OTHER -> NoString

\* JSON.stringify(value, replacer): replacer an array of strings or undefined.
JSONStringify(value, replacer) == Serialize(value, replacer)

\* A 32-bit word as two 16-bit halves (TLC's integers are 32 bits
\* wide themselves): the two's complement image of hash.
Half == 65536
Word(hi, lo) == [hi |-> hi, lo |-> lo]

\* Variant of hash << 5: a shift by 4.
ShiftLeft4(w) ==
    Word((w.hi * 16 + (w.lo * 16) \div Half) % Half, (w.lo * 16) % Half)

\* hash << 5
ShiftLeft5(w) ==
    Word((w.hi * 32 + (w.lo * 32) \div Half) % Half, (w.lo * 32) % Half)

\* a - b, kept to 32 bits
Minus(a, b) ==
    LET borrow == IF a.lo < b.lo THEN 1 ELSE 0
    IN  Word((a.hi - b.hi - borrow + 2 * Half) % Half, (a.lo - b.lo + Half) % Half)

\* w + char, kept to 32 bits
PlusChar(w, char) ==
    Word((w.hi + (w.lo + char) \div Half) % Half, (w.lo + char) % Half)

IsNegative(w) == w.hi >= Half \div 2

\* Math.abs(hash): a number in 0 .. 2^31, as an unsigned word.
MathAbs(w) == IF IsNegative(w) THEN Minus(Word(0, 0), w) ELSE w

\* Number.prototype.toString(36) of an unsigned word.
RECURSIVE WordToString36(_)
WordToString36(w) ==
    LET r == (w.hi % 36) * Half + w.lo
        q == Word(w.hi \div 36, r \div 36)
    IN  IF w.hi = 0 /\ w.lo < 36 THEN <<Digits36[w.lo + 1]>>
        ELSE WordToString36(q) \o <<Digits36[(r % 36) + 1]>>

\* Lines 33-39: the string that is hashed.
\* Variant of lines 33-39: the keys are not sorted.
FingerprintStringUnsorted(data) ==
    JSONStringify(data,
                  IF data.t \in {"object", "array"}
                  THEN Some(ObjectKeys(data)) ELSE NoString)

FingerprintString(data) ==
    JSONStringify(data,
                  IF data.t \in {"object", "array"}
                  THEN Some(Sort(ObjectKeys(data))) ELSE NoString)

\* Lines 40-45: the loop from character i on, entered with `hash`.  Each
\* pass computes (hash << 5) - hash + char and keeps its low 32 bits.  (The
\* test on `next` holds of every word; it makes the evaluation compute the
\* word of this pass before the next pass starts.)
RECURSIVE HashFrom(_, _, _)
HashFrom(str, i, hash) ==
    IF i > Len(str) THEN hash
    ELSE LET char == CharCode(str[i])
             next == PlusChar(Minus(ShiftLeft5(hash), hash), char)
         IN  IF next.hi < Half THEN HashFrom(str, i + 1, next) ELSE next

FingerprintHash(str) == HashFrom(str, 1, Word(0, 0))

\* generateFingerprint(data); str.length of an undefined str is a TypeError.
generateFingerprint(data) ==
    LET str == FingerprintString(data)
    IN  IF ~str.defined THEN Throw([name |-> "TypeError"], <<>>)
        ELSE Return(WordToString36(MathAbs(FingerprintHash(str.s))), <<>>)

\* ---------------------------------------------- fingerprints: the inputs

Keys == {<<"a">>, <<"a", "b">>, <<"b">>}
Numbers == 1..MaxNum

Prop(key, value) == [k |-> key, v |-> value]

\* Plain objects with at most two properties, numbers as values, in every
\* insertion order.
FlatObjects ==
    {Obj(<<>>)}
        \cup {Obj(<<Prop(k, Num(n))>>) : k \in Keys, n \in Numbers}
        \cup {Obj(<<Prop(k[1], Num(n[1])), Prop(k[2], Num(n[2]))>>) :
                 k \in {kk \in Keys \X Keys : kk[1] # kk[2]}, n \in Numbers \X Numbers}

\* Other inputs: scalars, undefined, arrays, and objects with a nested object.
OtherData ==
    {Undefined, Null, Num(0), Num(12), Str(<<>>), Str(<<"a", "\"", "b">>),
     Arr(<<>>), Arr(<<Num(1), Undefined>>), Arr(<<Obj(<<Prop(<<"a">>, Num(1))>>)>>),
     Obj(<<Prop(<<"b">>, Null), Prop(<<"a">>, Str(<<"1">>))>>),
     Obj(<<Prop(<<"a">>, Undefined)>>),
     Obj(<<Prop(<<"a">>, Obj(<<Prop(<<"a">>, Num(1)), Prop(<<"x">>, Num(1))>>))>>),
     Obj(<<Prop(<<"a">>, Obj(<<Prop(<<"a">>, Num(1)), Prop(<<"x">>, Num(2))>>))>>)}

FingerprintData == FlatObjects \cup OtherData

\* Inputs with one nested property: an object under the key a whose only
\* key is a (a top-level key too), ab, b or x, the same objects as the
\* only element of an array, and an array of one number under the key a.
NestedKeys == Keys \cup {<<"x">>}

NestedData ==
    {Obj(<<Prop(<<"a">>, Obj(<<Prop(k, Num(n))>>))>>) : k \in NestedKeys, n \in Numbers}
        \cup {Arr(<<Obj(<<Prop(k, Num(n))>>)>>) : k \in NestedKeys, n \in Numbers}
        \cup {Obj(<<Prop(<<"a">>, Arr(<<Num(n)>>))>>) : n \in Numbers}

\* --------------------------------------------- fingerprints: the actions

GenerateFingerprint ==
    /\ pc = "start"
    /\ \E data \in FingerprintData :
        /\ args' = [data |-> data]
        /\ out' = generateFingerprint(data)
    /\ pc' = "generateFingerprint"
    /\ UNCHANGED <<now, ids>>

\* Two calls, to compare their results.
GenerateFingerprintTwo ==
    /\ pc = "start"
    /\ \E first \in FlatObjects, second \in FlatObjects :
        /\ args' = [first |-> first, second |-> second]
        /\ out' = [first |-> generateFingerprint(first),
                   second |-> generateFingerprint(second)]
    /\ pc' = "generateFingerprintTwo"
    /\ UNCHANGED <<now, ids>>

\* Two calls on inputs with a nested object.
GenerateFingerprintNested ==
    /\ pc = "start"
    /\ \E first \in NestedData, second \in NestedData :
        /\ args' = [first |-> first, second |-> second]
        /\ out' = [first |-> generateFingerprint(first),
                   second |-> generateFingerprint(second)]
    /\ pc' = "generateFingerprintNested"
    /\ UNCHANGED <<now, ids>>

NextFingerprint ==
    \/ GenerateFingerprint
    \/ GenerateFingerprintTwo
    \/ GenerateFingerprintNested

SpecFingerprint == Init /\ [][NextFingerprint]_vars

\* ------------------------------------------------- branded identifiers

\* src/types/result.ts: `id as ResourceId`, a cast erased at run time.
asResourceId(id) == Return(id, <<>>)
asEphemeralId(id) == Return(id, <<>>)

\* src/types.ts
asSessionId(id) == Return(id, <<>>)
asCorrelationId(id) == Return(id, <<>>)
Types_asResourceId(id) == Return(id, <<>>)
Types_asEphemeralId(id) == Return(id, <<>>)

AsResourceId ==
    /\ pc = "start"
    /\ \E id \in Strings :
        /\ args' = [id |-> Str(id)]
        /\ out' = asResourceId(Str(id))
    /\ pc' = "asResourceId"
    /\ UNCHANGED <<now, ids>>

AsEphemeralId ==
    /\ pc = "start"
    /\ \E id \in Strings :
        /\ args' = [id |-> Str(id)]
        /\ out' = asEphemeralId(Str(id))
    /\ pc' = "asEphemeralId"
    /\ UNCHANGED <<now, ids>>

AsSessionId ==
    /\ pc = "start"
    /\ \E id \in Strings :
        /\ args' = [id |-> Str(id)]
        /\ out' = asSessionId(Str(id))
    /\ pc' = "asSessionId"
    /\ UNCHANGED <<now, ids>>

AsCorrelationId ==
    /\ pc = "start"
    /\ \E id \in Strings :
        /\ args' = [id |-> Str(id)]
        /\ out' = asCorrelationId(Str(id))
    /\ pc' = "asCorrelationId"
    /\ UNCHANGED <<now, ids>>

Types_AsResourceId ==
    /\ pc = "start"
    /\ \E id \in Strings :
        /\ args' = [id |-> Str(id)]
        /\ out' = Types_asResourceId(Str(id))
    /\ pc' = "types.asResourceId"
    /\ UNCHANGED <<now, ids>>

Types_AsEphemeralId ==
    /\ pc = "start"
    /\ \E id \in Strings :
        /\ args' = [id |-> Str(id)]
        /\ out' = Types_asEphemeralId(Str(id))
    /\ pc' = "types.asEphemeralId"
    /\ UNCHANGED <<now, ids>>

NextBranded ==
    \/ AsResourceId
    \/ AsEphemeralId
    \/ AsSessionId
    \/ AsCorrelationId
    \/ Types_AsResourceId
    \/ Types_AsEphemeralId

SpecBranded == Init /\ [][NextBranded]_vars

\* ---------------------------------------------------------------- claims

\* C1: map(r, f), standalone and Result.map: on a success r the result is
\* the success wrapping f applied to r's value; on a failure r the result
\* equals r (same tag, same error) and f is never invoked.
C1_MapContract ==
    pc = "map" =>
        \A m \in {out.map, out.Result_map} :
            /\ m.kind = "return"
            /\ args.result.ok =>
                /\ m.value = [ok |-> TRUE, value |-> args.fn[args.result.value]]
                /\ m.spy = <<args.result.value>>
            /\ ~args.result.ok =>
                /\ m.value = args.result
                /\ m.spy = <<>>

C1_Witness ==
    /\ pc = "map"
    /\ ~args.result.ok
    /\ out.Result_map.value = args.result

\* C2: chain(r, f) short-circuits: on a success r it returns exactly
\* f(r.value), a success or a failure as f decides; on a failure r it
\* returns r unchanged and f is never invoked.
C2_ChainContract ==
    pc = "chain" =>
        /\ out.kind = "return"
        /\ args.result.ok =>
            /\ out.value = args.fn[args.result.value]
            /\ out.spy = <<args.result.value>>
        /\ ~args.result.ok =>
            /\ out.value = args.result
            /\ out.spy = <<>>

C2_Witness ==
    /\ pc = "chain"
    /\ args.result.ok
    /\ ~out.value.ok

\* C3: chain is associative: chain(chain(r, f), g) equals
\* chain(r, x => chain(f(x), g)) for every r and all Result-returning f, g.
C3_ChainAssociative ==
    pc = "chainTwice" => out.lhs = out.rhs

C3_Witness ==
    /\ pc = "chainTwice"
    /\ args.result.ok
    /\ ~args.f[args.result.value].ok
    /\ args.g[args.result.value].ok

\* C4: unwrap(r), standalone and Result.unwrap, returns the contained value
\* of a success and throws exactly the contained error of a failure.
C4_UnwrapContract ==
    pc = "unwrap" =>
        \A u \in {out.unwrap, out.Result_unwrap} :
            /\ args.result.ok => u.kind = "return" /\ u.value = args.result.value
            /\ ~args.result.ok => u.kind = "throw" /\ u.value = args.result.error

C4_Witness ==
    /\ pc = "unwrap"
    /\ ~args.result.ok
    /\ out.unwrap.kind = "throw"

\* C5: unwrapOr(r, d) never throws: it returns the contained value of a
\* success and d for a failure, whatever d is.
C5_UnwrapOrContract ==
    pc = "unwrapOr" =>
        \A u \in {out.unwrapOr, out.Result_unwrapOr} :
            /\ u.kind = "return"
            /\ args.result.ok => u.value = args.result.value
            /\ ~args.result.ok => u.value = args.defaultValue

C5_Witness ==
    /\ pc = "unwrapOr"
    /\ ~args.result.ok
    /\ args.defaultValue \notin Values
    /\ out.unwrapOr.value = args.defaultValue

\* The paths into a value that `schema` can report: the root, and for an
\* object schema each member's key followed by a path the member can report.
RECURSIVE C6_SchemaPaths(_)
C6_SchemaPaths(schema) ==
    CASE schema.type = "ZodObject" ->
            {<<>>} \cup UNION {{<<schema.shape[i].k>> \o p :
                                   p \in C6_SchemaPaths(schema.shape[i].schema)} :
                               i \in 1..Len(schema.shape)}
      [] schema.type \in {"ZodOptional", "ZodEffects"} -> C6_SchemaPaths(schema.inner)
      [] OTHER -> {<<>>}

\* C6: validateWithSchema never throws: when the engine accepts the data it
\* returns the success wrapping the engine's parsed value, and when the
\* engine rejects it, the failure carrying the engine's error object, which
\* has at least one entry, each with the path of the field it is about.
C6_ValidateContract ==
    pc = "validateWithSchema" =>
        LET result == safeParse(args.schema, args.data)
        IN  /\ out.kind = "return"
            /\ result.success => out.value = [ok |-> TRUE, value |-> result.data]
            /\ ~result.success =>
                /\ out.value = [ok |-> FALSE, error |-> result.error]
                /\ Len(out.value.error.errors) >= 1
                /\ \A i \in 1..Len(out.value.error.errors) :
                      out.value.error.errors[i].path \in C6_SchemaPaths(args.schema)

C6_Witness ==
    /\ pc = "validateWithSchema"
    /\ ~out.value.ok
    /\ \E i \in 1..Len(out.value.error.errors) :
          Len(out.value.error.errors[i].path) = 2

\* The parsed value is not the input: unknown keys are stripped.
C6_WitnessParsed ==
    /\ pc = "validateWithSchema"
    /\ out.value.ok
    /\ out.value.value # args.data

\* `${path.join('.')}: ${message}` of each entry, joined with ", ".
C7_Lines(errors) ==
    Join([i \in 1..Len(errors) |->
             Join(errors[i].path, <<".">>) \o <<":", " ">> \o errors[i].message],
         <<",", " ">>)

\* C7 as stated: parseWithSchema returns the parsed value exactly when
\* validateWithSchema succeeds (the same value), and otherwise throws an
\* exception whose message is the concatenation of each error's path and
\* message, comma-separated.
C7_MessageIsConcatenation ==
    pc = "parseWithSchema" =>
        LET v == validateWithSchema(args.schema, args.data).value
        IN  /\ v.ok => out.kind = "return" /\ out.value = v.value
            /\ ~v.ok =>
                /\ out.kind = "throw"
                /\ out.value.message = C7_Lines(v.error.errors)

\* C7 (amended): parseWithSchema returns the parsed value exactly when
\* validateWithSchema succeeds (the same value), and otherwise throws an
\* Error whose message is the prefix "Validation failed: " followed by the
\* entries "<path joined by '.'>: <message>" of each error, joined by ", ".
C7_ParseContract ==
    pc = "parseWithSchema" =>
        LET v == validateWithSchema(args.schema, args.data).value
        IN  /\ v.ok => out.kind = "return" /\ out.value = v.value
            /\ ~v.ok =>
                /\ out.kind = "throw"
                /\ out.value.name = "Error"
                /\ out.value.message = VALIDATION_FAILED \o C7_Lines(v.error.errors)

\* A rejection with several errors, one of them at a nested path.
C7_Witness ==
    /\ pc = "parseWithSchema"
    /\ out.kind = "throw"
    /\ LET errors == safeParse(args.schema, args.data).error.errors
       IN  /\ Len(errors) >= 2
           /\ \E i \in 1..Len(errors) : Len(errors[i].path) = 2

\* C8: ResourceIdSchema accepts exactly the strings that begin with res_
\* (so not the empty string, nor a string beginning with eph_), and
\* EphemeralIdSchema exactly the strings that begin with eph_.
C8_IdPrefixes ==
    pc = "validateIdString" =>
        LET s == args.data.s
            begins(a, b, c, d) ==
                /\ Len(s) >= 4
                /\ s[1] = a /\ s[2] = b /\ s[3] = c /\ s[4] = d
        IN  /\ out.resource.kind = "return" /\ out.ephemeral.kind = "return"
            /\ out.resource.value.ok <=> begins("r", "e", "s", "_")
            /\ out.ephemeral.value.ok <=> begins("e", "p", "h", "_")

C8_Witness ==
    /\ pc = "validateIdString"
    /\ Len(args.data.s) = 5
    /\ out.ephemeral.value.ok
    /\ ~out.resource.value.ok

C8_WitnessResource ==
    /\ pc = "validateIdString"
    /\ Len(args.data.s) = 5
    /\ out.resource.value.ok

\* The key/value pairs of a plain object, and its keys.
C9_Entries(obj) == {<<obj.props[i].k, obj.props[i].v>> : i \in 1..Len(obj.props)}
C9_Keys(obj) == {obj.props[i].k : i \in 1..Len(obj.props)}

\* C9: for plain objects with numbers as values, generateFingerprint does
\* not depend on the order the keys were inserted in: two objects with the
\* same key/value pairs have the same fingerprint.  Changing a value (same
\* keys, another value) changes the string that is hashed, and the
\* fingerprints then agree only if the hashes collide in absolute value;
\* {a:1,b:2} and {a:1,b:3} have different fingerprints.
C9_KeyOrderAndValues ==
    pc = "generateFingerprintTwo" =>
        LET first == args.first
            second == args.second
            str1 == FingerprintString(first).s
            str2 == FingerprintString(second).s
        IN  /\ out.first.kind = "return" /\ out.second.kind = "return"
            /\ C9_Entries(first) = C9_Entries(second)
                  => out.first.value = out.second.value
            /\ (C9_Keys(first) = C9_Keys(second)
                  /\ C9_Entries(first) # C9_Entries(second))
                  => /\ str1 # str2
                     /\ out.first.value = out.second.value
                           => MathAbs(FingerprintHash(str1)) = MathAbs(FingerprintHash(str2))
            /\ (/\ C9_Entries(first) = {<<<<"a">>, Num(1)>>, <<<<"b">>, Num(2)>>}
                /\ C9_Entries(second) = {<<<<"a">>, Num(1)>>, <<<<"b">>, Num(3)>>})
                  => out.first.value # out.second.value

\* {b:2, a:1} and {a:1, b:2}: the same pairs in another order.
C9_Witness ==
    /\ pc = "generateFingerprintTwo"
    /\ args.first.props = <<Prop(<<"b">>, Num(2)), Prop(<<"a">>, Num(1))>>
    /\ args.second.props = <<Prop(<<"a">>, Num(1)), Prop(<<"b">>, Num(2))>>
    /\ out.first.value = out.second.value

\* C10 as stated: generateId(prefix) with a non-empty prefix returns a
\* string that starts with the prefix and an underscore, and any two calls
\* return different strings, whatever the clock and the random source give.
C10_AlwaysDistinct ==
    /\ \A i \in 1..Len(ids) :
          Len(ids[i].prefix) > 0 =>
              /\ Len(ids[i].id) > Len(ids[i].prefix)
              /\ SubSeq(ids[i].id, 1, Len(ids[i].prefix) + 1) = ids[i].prefix \o <<"_">>
    /\ \A i, j \in 1..Len(ids) :
          (i # j /\ ids[i].prefix = ids[j].prefix /\ Len(ids[i].prefix) > 0)
              => ids[i].id # ids[j].id

\* The characters 2..8 of Math.random().toString(36): what generateId keeps
\* of the random number.
C10_Kept(digits) ==
    IF Len(digits) <= 7 THEN digits ELSE SubSeq(digits, 1, 7)

\* C10 (amended): generateId(prefix) with a non-empty prefix returns a
\* string that starts with the prefix and an underscore, and two calls with
\* that prefix return the same string exactly when they read the same clock
\* value and drew random numbers with the same first seven base-36 digits:
\* calls that differ in either return different strings.
C10_DistinctUnlessSameDraw ==
    /\ \A i \in 1..Len(ids) :
          Len(ids[i].prefix) > 0 =>
              /\ Len(ids[i].id) > Len(ids[i].prefix)
              /\ SubSeq(ids[i].id, 1, Len(ids[i].prefix) + 1) = ids[i].prefix \o <<"_">>
    /\ \A i, j \in 1..Len(ids) :
          (i # j /\ ids[i].prefix = ids[j].prefix /\ Len(ids[i].prefix) > 0)
              => (ids[i].id = ids[j].id
                    <=> /\ ids[i].dateNow = ids[j].dateNow
                        /\ C10_Kept(ids[i].mathRandom) = C10_Kept(ids[j].mathRandom))

\* Two calls with the same prefix in one millisecond that return different
\* strings.
C10_Witness ==
    /\ Len(ids) >= 2
    /\ Len(ids[1].prefix) > 0
    /\ ids[1].prefix = ids[2].prefix
    /\ ids[1].dateNow = ids[2].dateNow
    /\ C10_Kept(ids[1].mathRandom) # C10_Kept(ids[2].mathRandom)
    /\ ids[1].id # ids[2].id

\* Two calls in one millisecond that drew different numbers and returned
\* the same string.
C10_WitnessCollision ==
    /\ Len(ids) >= 2
    /\ Len(ids[1].prefix) > 0
    /\ ids[1].prefix = ids[2].prefix
    /\ ids[1].mathRandom # ids[2].mathRandom
    /\ ids[1].id = ids[2].id

\* ---------------------------------------------------------------- C11

\* updatedAt >= createdAt and version >= 1 in a metadata record.
C11_Invariant(metadata) ==
    /\ Get(metadata, K_updatedAt).n >= Get(metadata, K_createdAt).n
    /\ Get(metadata, K_version).n >= 1

\* C11: every metadata record accepted by the package's validation
\* (isValidResourceMetadata over ResourceMetadataSchema, and
\* ExtendedResourceMetadataSchema) has updatedAt >= createdAt and
\* version >= 1.
C11_AcceptedMetadataInvariant ==
    /\ (pc = "isValidResourceMetadata" /\ out.value = TRUE)
           => C11_Invariant(args.data)
    /\ (pc = "validateExtendedResourceMetadata" /\ out.value.ok)
           => C11_Invariant(out.value.value)

\* What the schemas do check: an accepted record has numbers for both
\* timestamps and for the version, which ExtendedResourceMetadataSchema
\* sets to 1 when the input has none.
C11_AcceptedShape ==
    /\ (pc = "isValidResourceMetadata" /\ out.value = TRUE)
           => \A key \in {K_createdAt, K_updatedAt, K_version} :
                  Get(args.data, key).t = "number"
    /\ (pc = "validateExtendedResourceMetadata" /\ out.value.ok)
           => /\ \A key \in {K_createdAt, K_updatedAt, K_version} :
                     Get(out.value.value, key).t = "number"
              /\ ~HasKey(args.data, K_version)
                     => Get(out.value.value, K_version) = Num(1)

\* An accepted record whose update precedes its creation and whose version
\* is 0.
C11_WitnessAcceptedBroken ==
    /\ pc = "isValidResourceMetadata"
    /\ out.value = TRUE
    /\ Get(args.data, K_updatedAt).n < Get(args.data, K_createdAt).n
    /\ Get(args.data, K_version) = Num(0)

\* ---------------------------------------------------------------- C12

C12_Constructors ==
    {"asResourceId", "asEphemeralId", "asSessionId", "asCorrelationId",
     "types.asResourceId", "types.asEphemeralId"}

\* C12: no branded-identifier constructor (asResourceId, asEphemeralId,
\* asSessionId, asCorrelationId) returns the empty string, whatever string
\* it is given.
C12_NeverEmpty ==
    pc \in C12_Constructors
        => out.kind = "return" /\ out.value.t = "string" /\ Len(out.value.s) > 0

\* What the casts do: the argument comes back unchanged, so the result is
\* empty exactly when the argument is.
C12_ReturnsArgument ==
    pc \in C12_Constructors => out = Return(args.id, <<>>)

\* A constructor called with the empty string.
C12_WitnessEmpty ==
    /\ pc = "asSessionId"
    /\ args.id = Str(<<>>)
    /\ out.value = Str(<<>>)

\* ---------------------------------------------------------------- C13

\* C13: generateFingerprint(data) returns a string without throwing for
\* every input, undefined and other values without a JSON serialization
\* included, and two calls with the same input return the same string.
C13_TotalAndDeterministic ==
    /\ pc = "generateFingerprint"
           => out.kind = "return" /\ Len(out.value) > 0
    /\ (pc = "generateFingerprintTwo" /\ args.first = args.second)
           => out.first = out.second

\* What holds: an input that JSON.stringify writes (anything but undefined
\* at the top level) gets a non-empty string, the same one on every call;
\* an input it does not write makes the call throw a TypeError.
C13_TotalOnSerializable ==
    /\ pc = "generateFingerprint"
           => IF args.data.t = "undefined"
              THEN out = Throw([name |-> "TypeError"], <<>>)
              ELSE out.kind = "return" /\ Len(out.value) > 0
    /\ (pc = "generateFingerprintTwo" /\ args.first = args.second)
           => out.first = out.second

\* The call generateFingerprint(undefined) ends in an exception.
C13_WitnessThrows ==
    /\ pc = "generateFingerprint"
    /\ args.data = Undefined
    /\ out.kind = "throw"

\* ---------------------------------------------------------------- C14

\* The string hashed by the call in args.
C14_Str == FingerprintString(args.data).s

\* The accumulator after the first i characters.
C14_Acc(i) == FingerprintHash(SubSeq(C14_Str, 1, i))

\* 31 * h + c wrapped into [-2^31, 2^31 - 1], on two's complement images:
\* the product is taken half by half, the carry of the low half goes to
\* the high half, and the carry of the high half is dropped.
C14_MulAdd(h, c) ==
    LET low == 31 * h.lo + c
    IN  Word((31 * h.hi + low \div Half) % Half, low % Half)

\* The step wrapped: 31 * h + c, taken on the signed value of h, lies
\* outside [-2^31, 2^31 - 1].
C14_Wraps(h, c) ==
    LET low == 31 * h.lo + c
        high == 31 * (IF h.hi >= Half \div 2 THEN h.hi - Half ELSE h.hi) + low \div Half
    IN  high >= Half \div 2 \/ high < -(Half \div 2)

\* The absolute value of the signed number whose image is h.
C14_Magnitude(h) ==
    IF h.hi < Half \div 2 THEN h
    ELSE IF h.lo = 0 THEN Word(Half - h.hi, 0)
    ELSE Word(Half - h.hi - 1, Half - h.lo)

C14_Range36 == {Digits36[i] : i \in 1..36}

\* The number a base-36 numeral denotes.
RECURSIVE C14_Parse36(_, _)
C14_Parse36(digits, acc) ==
    IF Len(digits) = 0 THEN acc
    ELSE LET d == (CHOOSE i \in 1..36 : Digits36[i] = digits[1]) - 1
             low == 36 * acc.lo + d
         IN  C14_Parse36(Tail(digits), Word(36 * acc.hi + low \div Half, low % Half))

\* C14: in generateFingerprint the accumulator starts at 0, each character
\* code c takes it from h to (31 * h + c) wrapped into the signed 32-bit
\* range, and the result is the base-36 numeral (no leading zero) of the
\* absolute value of the final accumulator, a number in 0 .. 2^31.
C14_FoldAndRender ==
    (pc = "generateFingerprint" /\ out.kind = "return") =>
        /\ C14_Acc(0) = Word(0, 0)
        /\ \A i \in 1..Len(C14_Str) :
               /\ C14_Acc(i) = C14_MulAdd(C14_Acc(i - 1), CharCode(C14_Str[i]))
               /\ C14_Acc(i).hi \in 0..(Half - 1)
               /\ C14_Acc(i).lo \in 0..(Half - 1)
        /\ LET magnitude == C14_Magnitude(C14_Acc(Len(C14_Str)))
           IN  /\ C14_Parse36(out.value, Word(0, 0)) = magnitude
               /\ \A i \in 1..Len(out.value) : out.value[i] \in C14_Range36
               /\ Len(out.value) > 1 => out.value[1] # "0"
               /\ magnitude.hi < Half \div 2
                      \/ (magnitude.hi = Half \div 2 /\ magnitude.lo = 0)

\* A call whose fold left the 32-bit range at some step and ended on a
\* negative accumulator.
C14_Witness ==
    /\ pc = "generateFingerprint"
    /\ out.kind = "return"
    /\ \E i \in 1..Len(C14_Str) : C14_Wraps(C14_Acc(i - 1), CharCode(C14_Str[i]))
    /\ C14_Acc(Len(C14_Str)).hi >= Half \div 2

\* ---------------------------------------------------------------- C15

\* C15: two inputs that differ only in a nested property (a key or a value
\* inside a nested object, or inside an object that is an array element)
\* are serialized to different strings: nothing nested is dropped from the
\* string that generateFingerprint hashes.
C15_NestedDistinguished ==
    (pc = "generateFingerprintNested" /\ args.first # args.second)
        => FingerprintString(args.first).s # FingerprintString(args.second).s

\* The one nested property of an input of NestedData, or nothing when the
\* input has none.
C15_Inner(data) ==
    LET member == IF data.t = "array" THEN data.items[1] ELSE data.props[1].v
    IN  IF member.t = "object" THEN member.props ELSE <<>>

\* What is written of a nested object: the members whose key is also a key
\* of the input itself (for an array, one of its indices), and no others.
\* A nested key that is no top-level key is dropped with its value, so the
\* inputs that differ only there get one string and one fingerprint.
C15_NestedFiltered ==
    pc = "generateFingerprintNested" =>
        LET kept(data) ==
                SelectSeq(C15_Inner(data),
                          LAMBDA p : \E i \in 1..Len(ObjectKeys(data)) :
                                         ObjectKeys(data)[i] = p.k)
            str1 == FingerprintString(args.first).s
            str2 == FingerprintString(args.second).s
        IN  /\ (/\ args.first.t = args.second.t
                /\ args.first.t = "object" =>
                       args.first.props[1].v.t = args.second.props[1].v.t
                /\ C15_Inner(args.first) # <<>>
                /\ C15_Inner(args.second) # <<>>)
                   => (str1 = str2 <=> kept(args.first) = kept(args.second))
            /\ str1 = str2 => out.first = out.second

\* {a: {x: 1}} and {a: {x: 2}} are hashed as the same string, {"a":{}}.
C15_WitnessDropped ==
    /\ pc = "generateFingerprintNested"
    /\ args.first = Obj(<<Prop(<<"a">>, Obj(<<Prop(<<"x">>, Num(1))>>))>>)
    /\ args.second = Obj(<<Prop(<<"a">>, Obj(<<Prop(<<"x">>, Num(2))>>))>>)
    /\ FingerprintString(args.first).s = <<"{", "\"", "a", "\"", ":", "{", "}", "}">>
    /\ FingerprintString(args.second).s = <<"{", "\"", "a", "\"", ":", "{", "}", "}">>
    /\ out.first = out.second

====
